---- MODULE Spec2Model ----
(***************************************************************************)
(* Model of the per-atom gather/scatter protocol of the LAMMPS library     *)
(* interface (src/src/library.cpp): lammps_gather_atoms and                *)
(* lammps_scatter_atoms run by NProcs MPI ranks on a partitioned atom set. *)
(*                                                                         *)
(* Arrays are functions on 0..n-1, as in the C code.  A per-atom field is  *)
(* stored per rank as fld[r][slot][component]; a count = 1 field (the      *)
(* code's "vector") is the one-component case.  Values of double fields    *)
(* are modelled by their numerical value; int sums wrap at 32 bits.        *)
(***************************************************************************)
EXTENDS Integers, Sequences, FiniteSets, TLC

\* ------------------------------------------------------------------ bounds
NProcs == 2
MaxAtoms == 2
MaxTag == 2
MaxGhost == 1
MaxCount == 2
NFill == 2
MaxVal == 1
MaxMsgLen == 2
MaxStrLen == 4
MaxTail == 1
MaxCmds == 2
MaxCmdLen == 2
MaxIdxCount == 3
MaxIdxTag == 3
MaxCalls == 3
MaxBlocks == 3

\* --------------------------------------------------------------- constants
MAXSMALLINT == 2147483647

Procs == 0 .. (NProcs - 1)
Tags == 1 .. MaxTag
NULL == "NULL"
FieldName == "x"
Names == {FieldName, "nosuch"}

VARIABLES
  tag_enable,   \* atom->tag_enable
  map_style,    \* atom->map_style
  natoms,       \* atom->natoms (bigint, replicated on every rank)
  ftype,        \* numeric kind of the field: 0 = int, 1 = double
  fcount,       \* number of per-atom values of the field
  nlocal,       \* nlocal[r]: atom->nlocal of rank r
  nghost,       \* nghost[r]: atom->nghost of rank r
  tag,          \* tag[r]: atom->tag of rank r, owned slots then ghost slots
  fld,          \* fld[r][i][j]: the per-atom array returned by extract()
  data,         \* data[r]: the caller's buffer on rank r
  op,           \* library call the host program is making on every rank
  opname,       \* its name argument
  pc,           \* pc[r]: where rank r is in the call
  copy,         \* copy[r]: the staging buffer of rank r
  contrib,      \* contrib[r]: send buffer handed to MPI_Allreduce by rank r
  warnings,     \* warnings[r]: messages printed by rank r in this call
  snap,         \* per-atom storage as it was when the last gather was called
  sysB,         \* a second system holding the same atoms (pair comparison)
  dataB,        \* the gathered buffers of the second system
  last_error,   \* error->last_error_message and error->last_error_type
  ret,          \* the last library call made and the value it returned
  heap,         \* malloc'ed blocks not yet freed: held by the caller, or lost
  cin,          \* the argument of the running command call
  cout          \* what the command call has done so far

vars == <<tag_enable, map_style, natoms, ftype, fcount, nlocal, nghost, tag,
          fld, data, op, opname, pc, copy, contrib, warnings, snap, sysB,
          dataB, last_error, ret, heap, cin, cout>>

\* state of the other library calls (errors, commands, fix extraction)
libvars == <<last_error, ret, heap, cin, cout>>

sysvars == <<tag_enable, map_style, natoms, ftype, fcount, nlocal, nghost,
             tag, libvars>>

\* ----------------------------------------------------------------- helpers
RECURSIVE SumTo(_, _)
SumTo(f, n) == IF n < 0 THEN 0 ELSE f[n] + SumTo(f, n - 1)

Min(a, b) == IF a < b THEN a ELSE b

\* a bigint (64 bit) kept as two limbs: its value is hi * 2^31 + lo with
\* 0 <= lo <= MAXSMALLINT; the model checker's integers are 32 bits wide
Big(n) == [hi |-> 0, lo |-> n]
TooBig == [hi |-> 1, lo |-> 0]
\* n > MAXSMALLINT
ExceedsSmallInt(n) == n.hi > 0
\* static_cast<int>(n), for n <= MAXSMALLINT
ToInt(n) == n.lo

\* a + b in 32-bit two's complement
AddInt32(a, b) ==
  IF a > 0 /\ b > MAXSMALLINT - a
    THEN ((a - MAXSMALLINT) + (b - MAXSMALLINT)) - 2
  ELSE IF a < 0 /\ b < (-MAXSMALLINT - 1) - a
    THEN ((a + MAXSMALLINT) + (b + MAXSMALLINT)) + 2
  ELSE a + b

RECURSIVE SumInt32(_, _)
SumInt32(f, n) == IF n < 0 THEN 0 ELSE AddInt32(SumInt32(f, n - 1), f[n])

EmptyBuf == [k \in {} |-> 0]
ZeroBuf(n) == [k \in 0 .. (n - 1) |-> 0]
NoCopy == [alloc |-> FALSE, v |-> EmptyBuf]
NoSnap == [valid |-> FALSE, f |-> EmptyBuf]

\* value stored for component j of the owned atom with tag t
OwnVal(t, j) == 10 * t + j + 1
\* value stored in a ghost copy of the atom with tag t (not in sync)
GhostVal(t, j) == OwnVal(t, j) + 5

\* the caller's buffer patterns: all entries distinct
FillBuf(b, n) == [k \in 0 .. (n - 1) |-> 100 * b + k]


\* ------------------------------------------------- engine (Atom) accessors
\* tags of the atoms owned by some rank
OwnedTags(nl, tg) == {tg[r][i] : <<r, i>> \in {<<q, k>> \in Procs \X (0 .. MaxAtoms) : k < nl[q]}}

\* Atom::tag_consecutive(): 1 iff the smallest owned tag over all ranks is 1
\* and the largest is natoms
tag_consecutive(nl, tg, nat) ==
  LET S == OwnedTags(nl, tg)
  IN  IF /\ S # {}
         /\ 1 \in S
         /\ \A t \in S : t >= 1
         /\ nat.hi = 0
         /\ nat.lo \in S
         /\ \A t \in S : t <= nat.lo
      THEN 1 ELSE 0

\* Atom::map(t) on rank r: the lowest slot (owned or ghost) holding tag t,
\* or -1 when rank r holds no copy of t
map(r, t) ==
  LET S == {i \in DOMAIN tag[r] : tag[r][i] = t}
  IN  IF S = {} THEN -1 ELSE CHOOSE i \in S : \A k \in S : i <= k

\* Atom::extract(name)
extract(name) == IF name = FieldName THEN FieldName ELSE NULL

\* lammps_get_natoms(): the length the caller sizes its buffer with
lammps_get_natoms == IF ExceedsSmallInt(natoms) THEN 0 ELSE ToInt(natoms)

DataLen == fcount * lammps_get_natoms

\* ------------------------------------------------------ lammps_gather_atoms
\* a slip: tag_enable is not tested
GatherFlag_NoTagCheck(r) ==
  \/ tag_consecutive(nlocal, tag, natoms) = 0
  \/ ExceedsSmallInt(natoms)

\* a slip: a rank that owns no atom returns at once
GatherFlag_EmptyRank(r) ==
  \/ tag_enable = 0
  \/ tag_consecutive(nlocal, tag, natoms) = 0
  \/ ExceedsSmallInt(natoms)
  \/ nlocal[r] = 0

\* the precondition test of gather
GatherFlag(r) ==
  \/ tag_enable = 0
  \/ tag_consecutive(nlocal, tag, natoms) = 0
  \/ ExceedsSmallInt(natoms)

\* one atom's values written into the staging buffer
GatherWrite(cpy, type, count, t, row) ==
  [k \in DOMAIN cpy |->
     IF k >= count * (t - 1) /\ k < count * (t - 1) + count
     THEN (IF type = 0 /\ count > 1 THEN row[0] ELSE row[k - count * (t - 1)])
     ELSE cpy[k]]

RECURSIVE GatherLoop(_, _, _, _, _, _, _)
GatherLoop(i, cpy, type, count, tg, arr, nloc) ==
  IF i >= nloc THEN cpy
  ELSE GatherLoop(i + 1, GatherWrite(cpy, type, count, tg[i], arr[i]),
                  type, count, tg, arr, nloc)

\* a slip: the staging buffer is indexed by local slot, not by tag
FillCopy_BySlot(type, count, nat, tg, arr, nloc) ==
  GatherLoop(0, ZeroBuf(count * nat), type, count,
             [i \in DOMAIN tg |-> i + 1], arr, nloc)

\* the staging buffer of one rank: zeroed, then filled from the owned slots
FillCopy(type, count, nat, tg, arr, nloc) ==
  GatherLoop(0, ZeroBuf(count * nat), type, count, tg, arr, nloc)

\* MPI_Allreduce(copy,data,n,MPI_INT or MPI_DOUBLE,MPI_SUM,world)
Allreduce(type, bufs, nprocs, n) ==
  [k \in 0 .. (n - 1) |->
     LET col == [r \in 0 .. (nprocs - 1) |-> bufs[r][k]]
     IN  IF type = 0 THEN SumInt32(col, nprocs - 1)
         ELSE SumTo(col, nprocs - 1)]

\* ----------------------------------------------------- lammps_scatter_atoms
\* a slip: the atom map is not tested
ScatterFlag_NoMapCheck(r) ==
  \/ tag_enable = 0
  \/ tag_consecutive(nlocal, tag, natoms) = 0
  \/ ExceedsSmallInt(natoms)

\* the precondition test of scatter
ScatterFlag(r) ==
  \/ tag_enable = 0
  \/ tag_consecutive(nlocal, tag, natoms) = 0
  \/ ExceedsSmallInt(natoms)
  \/ map_style = 0

\* a slip: every component is read from the start of the atom's slice
ScatterRow_FirstOnly(type, count, i, dptr) ==
  [j \in 0 .. (count - 1) |-> dptr[count * i]]

\* the count values of the atom with tag i+1 read from the caller's buffer
ScatterRow(type, count, i, dptr) ==
  [j \in 0 .. (count - 1) |-> dptr[count * i + j]]

RECURSIVE ScatterLoop(_, _, _, _, _, _, _)
ScatterLoop(i, arr, type, count, nat, r, dptr) ==
  IF i >= nat THEN arr
  ELSE LET m == map(r, i + 1)
       IN  ScatterLoop(i + 1,
             IF m >= 0
             THEN [arr EXCEPT ![m] = ScatterRow(type, count, i, dptr)]
             ELSE arr,
             type, count, nat, r, dptr)

\* a slip: the loop runs over the local slots and looks the tag up in tag[]
ScatterArr_BySlot(type, count, nat, r, arr, dptr) ==
  [s \in DOMAIN arr |-> ScatterRow(type, count, tag[r][s] - 1, dptr)]

\* the per-atom storage of rank r after the scatter loop
ScatterArr(type, count, nat, r, arr, dptr) ==
  ScatterLoop(0, arr, type, count, nat, r, dptr)


\* ------------------------------------------------------------ initial state
TagArrays == UNION {[0 .. (k - 1) -> Tags] : k \in 0 .. (MaxAtoms + MaxGhost)}

\* engine configurations: consistent, tags disabled, no atom map, or more
\* atoms than a 32-bit int can count
Defects == {"ok", "notags", "nomap", "big"}

\* per-atom storage of a rank: owned slots, then ghost slots
InitArr(nl, tg, cnt, r) ==
  [i \in DOMAIN tg[r] |->
     [j \in 0 .. (cnt - 1) |->
        IF i < nl[r] THEN OwnVal(tg[r][i], j) ELSE GhostVal(tg[r][i], j)]]

\* Error::ErrorType
ERROR_NONE == 0
ERROR_NORMAL == 1
ERROR_ABORT == 2

\* a char pointer: NULL, or a string of characters
NullStr == [null |-> TRUE, s |-> << >>]
Str(s) == [null |-> FALSE, s |-> s]

NoError == [msg |-> NullStr, type |-> ERROR_NONE]
NoCall == [fn |-> "none", val |-> 0, arg |-> 0]
NoHeap == [held |-> 0, lost |-> 0]

\* no other library call has been made
LibIdle ==
  /\ last_error = NoError
  /\ ret = NoCall
  /\ heap = NoHeap
  /\ cin = << >>
  /\ cout = << >>

NoSys == [np |-> 0, nl |-> EmptyBuf, tg |-> EmptyBuf, arr |-> EmptyBuf]

HostIdle ==
  /\ op = "none"
  /\ opname = NULL
  /\ pc = [r \in Procs |-> "idle"]
  /\ copy = [r \in Procs |-> NoCopy]
  /\ contrib = [r \in Procs |-> NoCopy]
  /\ warnings = [r \in Procs |-> << >>]
  /\ snap = NoSnap

Idle == HostIdle /\ LibIdle

Layouts ==
  {l \in [nl : [Procs -> 0 .. MaxAtoms], ng : [Procs -> 0 .. MaxGhost],
          tg : [Procs -> TagArrays]] :
     /\ SumTo(l.nl, NProcs - 1) <= MaxAtoms
     /\ \A r \in Procs : DOMAIN l.tg[r] = 0 .. (l.nl[r] + l.ng[r] - 1)
     /\ \A r \in Procs : \A i \in DOMAIN l.tg[r] :
          i >= l.nl[r] => l.tg[r][i] \in OwnedTags(l.nl, l.tg)}

Init ==
  \E l \in Layouts, defect \in Defects, ty \in 0 .. 1, cnt \in 1 .. MaxCount :
     /\ nlocal = l.nl
     /\ nghost = l.ng
     /\ tag = l.tg
     /\ tag_enable = IF defect = "notags" THEN 0 ELSE 1
     /\ map_style = IF defect = "nomap" THEN 0 ELSE 1
     /\ natoms = IF defect = "big" THEN TooBig
                 ELSE Big(SumTo(l.nl, NProcs - 1))
     /\ ftype = ty
     /\ fcount = cnt
     /\ fld = [r \in Procs |-> InitArr(l.nl, l.tg, cnt, r)]
     /\ data = [r \in Procs |->
                  FillBuf(1, cnt * (IF defect = "big" THEN 0
                                    ELSE SumTo(l.nl, NProcs - 1)))]
     /\ Idle
     /\ sysB = NoSys
     /\ dataB = EmptyBuf

\* ------------------------------------------------------------ host program
\* the host program calls lammps_gather_atoms(name) on every rank
StartGather(name) ==
  /\ op = "none"
  /\ op' = "gather"
  /\ opname' = name
  /\ warnings' = [r \in Procs |-> << >>]
  /\ snap' = [valid |-> TRUE, f |-> fld]
  /\ UNCHANGED <<sysvars, fld, data, pc, copy, contrib, sysB, dataB>>

\* the host program calls lammps_scatter_atoms(name) on every rank
StartScatter(name) ==
  /\ op = "none"
  /\ op' = "scatter"
  /\ opname' = name
  /\ warnings' = [r \in Procs |-> << >>]
  /\ UNCHANGED <<sysvars, fld, data, pc, copy, contrib, snap, sysB, dataB>>

\* the call has returned on every rank
EndCall ==
  /\ op # "none"
  /\ \A r \in Procs : pc[r] \in {"done", "aborted"}
  /\ op' = "none"
  /\ pc' = [r \in Procs |-> "idle"]
  /\ contrib' = [r \in Procs |-> NoCopy]
  /\ snap' = IF op = "gather" /\ \A r \in Procs : pc[r] = "done"
             THEN snap ELSE NoSnap
  /\ UNCHANGED <<sysvars, fld, data, opname, copy, warnings, sysB, dataB>>

\* the host program overwrites its buffer, identically on every rank
CallerFill(b) ==
  /\ op = "none"
  /\ data' = [r \in Procs |-> FillBuf(b, DataLen)]
  /\ snap' = NoSnap
  /\ UNCHANGED <<sysvars, fld, op, opname, pc, copy, contrib, warnings, sysB,
                 dataB>>

\* ------------------------------------------------------------ gather steps
\* rank r runs lammps_gather_atoms up to its return or to MPI_Allreduce
GatherEnter(r) ==
  /\ op = "gather"
  /\ pc[r] = "idle"
  /\ IF GatherFlag(r)
     THEN /\ warnings' = [warnings EXCEPT ![r] =
                 IF r = 0
                 THEN Append(@, "Library error in lammps_gather_atoms")
                 ELSE @]
          /\ pc' = [pc EXCEPT ![r] = "aborted"]
          /\ UNCHANGED <<copy, contrib>>
     ELSE IF extract(opname) = NULL
     THEN /\ warnings' = [warnings EXCEPT ![r] =
                 Append(@, "lammps_gather_atoms: unknown property name")]
          /\ pc' = [pc EXCEPT ![r] = "aborted"]
          /\ UNCHANGED <<copy, contrib>>
     ELSE LET c == FillCopy(ftype, fcount, ToInt(natoms), tag[r], fld[r],
                            nlocal[r])
          IN  /\ copy' = [copy EXCEPT ![r] = [alloc |-> TRUE, v |-> c]]
              /\ contrib' = [contrib EXCEPT ![r] = [alloc |-> TRUE, v |-> c]]
              /\ pc' = [pc EXCEPT ![r] = "reduce"]
              /\ UNCHANGED warnings
  /\ UNCHANGED <<sysvars, fld, data, op, opname, snap, sysB, dataB>>

\* a slip: the staging buffer is not released
GatherComplete_NoFree(r) ==
  /\ op = "gather"
  /\ pc[r] = "reduce"
  /\ \A q \in Procs : contrib[q].alloc
  /\ data' = [data EXCEPT ![r] =
        Allreduce(ftype, [q \in Procs |-> contrib[q].v], NProcs,
                  fcount * ToInt(natoms))]
  /\ pc' = [pc EXCEPT ![r] = "done"]
  /\ UNCHANGED <<sysvars, fld, op, opname, copy, contrib, warnings, snap,
                 sysB, dataB>>

\* a slip: the local staging buffer is copied out without the reduction
GatherComplete_NoWait(r) ==
  /\ op = "gather"
  /\ pc[r] = "reduce"
  /\ data' = [data EXCEPT ![r] = copy[r].v]
  /\ copy' = [copy EXCEPT ![r] = NoCopy]
  /\ pc' = [pc EXCEPT ![r] = "done"]
  /\ UNCHANGED <<sysvars, fld, op, opname, contrib, warnings, snap, sysB,
                 dataB>>

\* MPI_Allreduce returns on rank r once every rank has contributed; rank r
\* then frees its staging buffer and returns
GatherComplete(r) ==
  /\ op = "gather"
  /\ pc[r] = "reduce"
  /\ \A q \in Procs : contrib[q].alloc
  /\ data' = [data EXCEPT ![r] =
        Allreduce(ftype, [q \in Procs |-> contrib[q].v], NProcs,
                  fcount * ToInt(natoms))]
  /\ copy' = [copy EXCEPT ![r] = NoCopy]
  /\ pc' = [pc EXCEPT ![r] = "done"]
  /\ UNCHANGED <<sysvars, fld, op, opname, contrib, warnings, snap, sysB,
                 dataB>>

\* ----------------------------------------------------------- scatter step
\* rank r runs lammps_scatter_atoms
Scatter(r) ==
  /\ op = "scatter"
  /\ pc[r] = "idle"
  /\ IF ScatterFlag(r)
     THEN /\ warnings' = [warnings EXCEPT ![r] =
                 IF r = 0
                 THEN Append(@, "Library error in lammps_scatter_atoms")
                 ELSE @]
          /\ pc' = [pc EXCEPT ![r] = "aborted"]
          /\ UNCHANGED fld
     ELSE IF extract(opname) = NULL
     THEN /\ warnings' = [warnings EXCEPT ![r] =
                 Append(@, "lammps_scatter_atoms: unknown property name")]
          /\ pc' = [pc EXCEPT ![r] = "aborted"]
          /\ UNCHANGED fld
     ELSE /\ fld' = [fld EXCEPT ![r] =
                 ScatterArr(ftype, fcount, ToInt(natoms), r, fld[r], data[r])]
          /\ pc' = [pc EXCEPT ![r] = "done"]
          /\ UNCHANGED warnings
  /\ UNCHANGED <<sysvars, data, op, opname, copy, contrib, snap, sysB, dataB>>

Next ==
  \/ \E name \in Names : StartGather(name)
  \/ \E name \in Names : StartScatter(name)
  \/ EndCall
  \/ \E b \in 1 .. NFill : CallerFill(b)
  \/ \E r \in Procs : GatherEnter(r)
  \/ \E r \in Procs : GatherComplete(r)
  \/ \E r \in Procs : Scatter(r)

Spec == Init /\ [][Next]_vars


\* ------------------------------------------- two partitionings of one system
\* layouts of n atoms on np ranks, every tag in 1..n owned exactly once, in
\* any slot order, without ghosts
ValidLayouts(np, n) ==
  {tg \in [0 .. (np - 1) -> TagArrays] :
     /\ \A t \in 1 .. n :
          Cardinality({o \in (0 .. (np - 1)) \X (0 .. (MaxAtoms + MaxGhost)) :
                         o[2] \in DOMAIN tg[o[1]] /\ tg[o[1]][o[2]] = t}) = 1
     /\ \A r \in 0 .. (np - 1) : \A i \in DOMAIN tg[r] : tg[r][i] \in 1 .. n}

\* per-atom storage of a rank owning the atoms tg[r], with values val[tag]
ArrOf(tg, val, r) == [i \in DOMAIN tg[r] |-> val[tg[r][i]]]

PairInit ==
  \E n \in 1 .. Min(MaxAtoms, MaxTag), ty \in 0 .. 1, cnt \in 1 .. MaxCount,
     np \in 1 .. NProcs :
    \E val \in [1 .. n -> [0 .. (cnt - 1) -> 0 .. MaxVal]],
       ta \in ValidLayouts(NProcs, n), tb \in ValidLayouts(np, n) :
       /\ nlocal = [r \in Procs |-> Cardinality(DOMAIN ta[r])]
       /\ nghost = [r \in Procs |-> 0]
       /\ tag = ta
       /\ tag_enable = 1
       /\ map_style = 1
       /\ natoms = Big(n)
       /\ ftype = ty
       /\ fcount = cnt
       /\ fld = [r \in Procs |-> ArrOf(ta, val, r)]
       /\ data = [r \in Procs |-> FillBuf(1, cnt * n)]
       /\ Idle
       /\ sysB = [np |-> np,
                  nl |-> [r \in 0 .. (np - 1) |-> Cardinality(DOMAIN tb[r])],
                  tg |-> tb,
                  arr |-> [r \in 0 .. (np - 1) |-> ArrOf(tb, val, r)]]
       /\ dataB = EmptyBuf

\* the collective gather of the same field run on the second system
GatherB ==
  /\ sysB.np > 0
  /\ dataB = EmptyBuf
  /\ dataB' = [r \in 0 .. (sysB.np - 1) |->
        Allreduce(ftype,
                  [q \in 0 .. (sysB.np - 1) |->
                     FillCopy(ftype, fcount, ToInt(natoms), sysB.tg[q],
                              sysB.arr[q], sysB.nl[q])],
                  sysB.np, fcount * ToInt(natoms))]
  /\ UNCHANGED <<sysvars, fld, data, op, opname, pc, copy, contrib, warnings,
                 snap, sysB>>

PairNext ==
  \/ StartGather(FieldName)
  \/ \E r \in Procs : GatherEnter(r)
  \/ \E r \in Procs : GatherComplete(r)
  \/ GatherB

PairSpec == PairInit /\ [][PairNext]_vars

\* ------------------------------------------------- gather under fair progress
\* the systems without ghost atoms, consistent or with tags disabled
LiveInit == Init /\ nghost = [r \in Procs |-> 0] /\ map_style = 1
                 /\ ~ExceedsSmallInt(natoms)

LiveNext ==
  \/ \E name \in Names : StartGather(name)
  \/ \E r \in Procs : GatherEnter(r)
  \/ \E r \in Procs : GatherComplete(r)
  \/ EndCall

\* MPI completes an all-reduce on a rank once every rank has entered it
LiveSpec ==
  LiveInit /\ [][LiveNext]_vars /\ \A r \in Procs : WF_vars(GatherComplete(r))

\* ------------------------------------------------- overlapping partitions
\* tag arrays of at most MaxAtoms owned slots with tags in 1..n
OverlapArrays(n) == UNION {[0 .. (k - 1) -> 1 .. n] : k \in 0 .. MaxAtoms}

\* per-atom storage in which every rank and slot holds values of its own
OverlapArr(tg, cnt, r) ==
  [i \in DOMAIN tg[r] |->
     [j \in 0 .. (cnt - 1) |-> 1000 * r + 100 * i + OwnVal(tg[r][i], j)]]

\* systems of n atoms in which a tag may be owned by several ranks, or by
\* none, and which still pass tag_consecutive()
OverlapInit ==
  \E n \in 1 .. (MaxTag + 1), ty \in 0 .. 1, cnt \in 1 .. MaxCount :
    \E tg \in [Procs -> OverlapArrays(n)] :
       LET nl == [r \in Procs |-> Cardinality(DOMAIN tg[r])]
       IN  /\ tag_consecutive(nl, tg, Big(n)) = 1
           /\ nlocal = nl
           /\ nghost = [r \in Procs |-> 0]
           /\ tag = tg
           /\ tag_enable = 1
           /\ map_style = 1
           /\ natoms = Big(n)
           /\ ftype = ty
           /\ fcount = cnt
           /\ fld = [r \in Procs |-> OverlapArr(tg, cnt, r)]
           /\ data = [r \in Procs |-> FillBuf(1, cnt * n)]
           /\ Idle
           /\ sysB = NoSys
           /\ dataB = EmptyBuf

OverlapNext ==
  \/ StartGather(FieldName)
  \/ \E r \in Procs : GatherEnter(r)
  \/ \E r \in Procs : GatherComplete(r)

OverlapSpec == OverlapInit /\ [][OverlapNext]_vars

\* --------------------------------------------------------- an empty engine
\* an engine without atoms on which no gather or scatter is running
EmptyStore ==
  /\ nlocal = [r \in Procs |-> 0]
  /\ nghost = [r \in Procs |-> 0]
  /\ tag = [r \in Procs |-> EmptyBuf]
  /\ tag_enable = 1
  /\ map_style = 1
  /\ ftype = 1
  /\ fld = [r \in Procs |-> EmptyBuf]
  /\ data = [r \in Procs |-> EmptyBuf]
  /\ sysB = NoSys
  /\ dataB = EmptyBuf

EmptySystem ==
  /\ EmptyStore
  /\ natoms = Big(0)
  /\ fcount = 1

gathervars == <<tag_enable, map_style, natoms, ftype, fcount, nlocal, nghost,
                tag, fld, data, op, opname, pc, copy, contrib, warnings, snap,
                sysB, dataB>>

\* ------------------------------------------------------- last-error slot
\* error messages: strings of at most MaxMsgLen characters
Messages == UNION {[0 .. (k - 1) -> {"a", "b"}] : k \in 0 .. MaxMsgLen}

\* Error::set_last_error(msg, type)
set_last_error(msg, type) == [msg |-> msg, type |-> type]

\* Error::get_last_error()
get_last_error == last_error.msg

\* Error::get_last_error_type()
get_last_error_type == last_error.type

\* strncpy(buffer, src, n): n characters are written, the characters of src
\* and then NUL characters; a longer src is cut without a terminator
Strncpy(buffer, src, n) ==
  [k \in DOMAIN buffer |->
     IF k >= n THEN buffer[k]
     ELSE IF k \in DOMAIN src THEN src[k] ELSE "NUL"]

\* END_CAPTURE: a library call threw an exception with message msg; abort
\* is TRUE for a LAMMPSAbortException raised in a universe of nprocs ranks
END_CAPTURE(msg, abort, nprocs) ==
  /\ last_error' = IF abort /\ nprocs > 1
                   THEN set_last_error(Str(msg), ERROR_ABORT)
                   ELSE set_last_error(Str(msg), ERROR_NORMAL)
  /\ ret' = [fn |-> "capture", val |-> 0, arg |-> IF abort THEN nprocs ELSE 0]
  /\ UNCHANGED <<gathervars, heap, cin, cout>>

lammps_has_error ==
  /\ ret' = [fn |-> "has_error",
             val |-> IF get_last_error # NullStr THEN 1 ELSE 0, arg |-> 0]
  /\ UNCHANGED <<gathervars, last_error, heap, cin, cout>>

\* a slip: the slot is not cleared after the message was copied
lammps_get_last_error_message_NoClear(buffer_size) ==
  /\ IF get_last_error # NullStr
     THEN /\ ret' = [fn |-> "get_last_error_message",
                     val |-> get_last_error_type, arg |-> buffer_size]
          /\ cout' = Strncpy([k \in 0 .. (buffer_size - 1) |-> "?"],
                             get_last_error.s, buffer_size - 1)
     ELSE /\ ret' = [fn |-> "get_last_error_message", val |-> 0,
                     arg |-> buffer_size]
          /\ cout' = [k \in 0 .. (buffer_size - 1) |-> "?"]
  /\ UNCHANGED <<gathervars, last_error, heap, cin>>

\* the caller passes a fresh buffer of buffer_size characters
lammps_get_last_error_message(buffer_size) ==
  /\ IF get_last_error # NullStr
     THEN /\ ret' = [fn |-> "get_last_error_message",
                     val |-> get_last_error_type, arg |-> buffer_size]
          /\ cout' = Strncpy([k \in 0 .. (buffer_size - 1) |-> "?"],
                             get_last_error.s, buffer_size - 1)
          /\ last_error' = set_last_error(NullStr, ERROR_NONE)
     ELSE /\ ret' = [fn |-> "get_last_error_message", val |-> 0,
                     arg |-> buffer_size]
          /\ cout' = [k \in 0 .. (buffer_size - 1) |-> "?"]
          /\ UNCHANGED last_error
  /\ UNCHANGED <<gathervars, heap, cin>>

ErrInit == EmptySystem /\ Idle

ErrNext ==
  \/ \E msg \in Messages, abort \in BOOLEAN, nprocs \in 1 .. NProcs :
        END_CAPTURE(msg, abort, nprocs)
  \/ lammps_has_error
  \/ \E size \in 1 .. (MaxMsgLen + 1) : lammps_get_last_error_message(size)

ErrSpec == ErrInit /\ [][ErrNext]_vars

\* ------------------------------------------------------- command strings
\* Memory is a sequence of characters; C index i is element i+1.  The bytes
\* that follow the private copy are not the program's: any content.

NUL == "NUL"
NL == "\n"
CmdChars == {"a", " ", "&", NL}
Space == {" ", NL}

Texts(k) == UNION {[1 .. j -> CmdChars] : j \in 0 .. k}
Tails == {t \o <<NUL>> : t \in Texts(MaxTail)}

Max(a, b) == IF a > b THEN a ELSE b

\* first index >= s holding a character of stop; Len(mem) when none is left
FindFrom(mem, s, stop) ==
  IF \E i \in s .. (Len(mem) - 1) : mem[i + 1] \in stop
  THEN CHOOSE i \in s .. (Len(mem) - 1) :
         /\ mem[i + 1] \in stop
         /\ \A k \in s .. (i - 1) : mem[k + 1] \notin stop
  ELSE Len(mem)

strlen(mem, p) == FindFrom(mem, p, {NUL}) - p

Token(mem, p) == SubSeq(mem, p + 1, p + strlen(mem, p))

\* strtok(start, "\n"); start < 0 is strtok(NULL, "\n").  The token start
\* goes to field ptr (-1 for NULL), the scan position to field save.
strtok(st, start) ==
  LET s == IF start < 0 THEN st.save ELSE start
      b == FindFrom(st.mem, s, (CmdChars \cup {NUL}) \ {NL})
      e == FindFrom(st.mem, b, {NL, NUL})
  IN IF e >= Len(st.mem)
     THEN [st EXCEPT !.crash = TRUE, !.hi = Len(st.mem), !.ptr = -1]
     ELSE IF st.mem[b + 1] = NUL
     THEN [st EXCEPT !.ptr = -1, !.save = b, !.hi = Max(@, b)]
     ELSE IF st.mem[e + 1] = NUL
     THEN [st EXCEPT !.ptr = b, !.save = e, !.hi = Max(@, e)]
     ELSE [st EXCEPT !.ptr = b, !.save = e + 1, !.hi = Max(@, e),
                     !.mem[e + 1] = NUL]

\* n = nend-1; while (n && isspace(ptr[n])) n--;
LastNonSpace(mem, ptr, nend) ==
  LET c == {k \in 1 .. (nend - 1) : mem[ptr + k + 1] \notin Space}
  IN IF c = {} THEN 0 ELSE CHOOSE k \in c : \A j \in c : j <= k

RECURSIVE concatenate_lines(_)
concatenate_lines(st) ==
  LET nend == strlen(st.mem, st.ptr)
      n == LastNonSpace(st.mem, st.ptr, nend)
  IN IF st.crash THEN st
     ELSE IF st.ptr + nend >= Len(st.mem)
     THEN [st EXCEPT !.crash = TRUE, !.hi = Len(st.mem)]
     ELSE IF st.mem[st.ptr + n + 1] # "&"
     THEN [st EXCEPT !.hi = Max(@, st.ptr + nend)]
     ELSE LET w == [st EXCEPT !.mem[st.ptr + nend + 1] = " ",
                              !.mem[st.ptr + n + 1] = " ",
                              !.hi = Max(@, st.ptr + nend)]
              t == strtok(w, st.ptr)
          IN concatenate_lines([t EXCEPT !.ptr = IF t.crash THEN -1
                                                 ELSE st.ptr])

NextLine(st, start) ==
  LET t == strtok(st, start)
  IN IF t.ptr >= 0 THEN concatenate_lines(t) ELSE t

RECURSIVE CommandLoop(_)
CommandLoop(st) ==
  IF st.crash \/ st.ptr < 0 THEN st
  ELSE CommandLoop(NextLine([st EXCEPT !.cmds =
                                 Append(@, Token(st.mem, st.ptr))], -1))

\* the run of lammps_commands_string on str, with tail after the copy
commands_string(str, tail) ==
  CommandLoop(NextLine([mem |-> str \o <<NUL>> \o tail, save |-> 0,
                        ptr |-> -1, cmds |-> << >>, hi |-> Len(str),
                        crash |-> FALSE], 0))

CmdResult(r, size, lo, text) ==
  [cmds |-> r.cmds, lo |-> lo, hi |-> r.hi, size |-> size, text |-> text]

lammps_commands_string(str, tail) ==
  /\ cin.fn = "commands_string"
  /\ ret = NoCall
  /\ cout' = CmdResult(commands_string(str, tail), Len(str) + 1, 0, str)
  /\ ret' = [fn |-> "commands_string", val |-> 0, arg |-> 0]
  /\ UNCHANGED <<gathervars, last_error, heap, cin>>

RECURSIVE SumLen(_)
SumLen(cmds) ==
  IF cmds = << >> THEN 0 ELSE Len(Head(cmds)) + SumLen(Tail(cmds))

\* the loop over cmds: b.text is str[0..n-1], b.lo the lowest index read;
\* before is the byte in front of str, which is not the program's
RECURSIVE ListLoop(_, _, _)
ListLoop(b, cmds, before) ==
  IF cmds = << >> THEN b
  ELSE LET t == b.text \o Head(cmds)
           n == Len(t)
           last == IF n = 0 THEN before ELSE t[n]
       IN ListLoop([text |-> IF last # NL THEN Append(t, NL) ELSE t,
                    lo |-> Min(b.lo, n - 1)], Tail(cmds), before)

lammps_commands_list(cmds, before, tail) ==
  LET b == ListLoop([text |-> << >>, lo |-> 0], cmds, before)
      r == commands_string(b.text, tail)
  IN /\ cin.fn = "commands_list"
     /\ ret = NoCall
     /\ cout' = CmdResult([r EXCEPT !.hi = Len(b.text)],
                          Len(cmds) + 1 + SumLen(cmds), b.lo, b.text)
     /\ ret' = [fn |-> "commands_list", val |-> 0, arg |-> 0]
     /\ UNCHANGED <<gathervars, last_error, heap, cin>>

CmdInputs ==
  {[fn |-> "commands_string", str |-> s, before |-> NUL, tail |-> t] :
     s \in Texts(MaxStrLen), t \in Tails}
  \cup
  {[fn |-> "commands_list", str |-> c, before |-> b, tail |-> t] :
     c \in UNION {[1 .. k -> Texts(MaxCmdLen)] : k \in 0 .. MaxCmds},
     b \in CmdChars \cup {NUL}, t \in Tails}

CmdInit ==
  /\ EmptySystem
  /\ HostIdle
  /\ last_error = NoError
  /\ ret = NoCall
  /\ heap = NoHeap
  /\ cout = << >>
  /\ cin \in CmdInputs

CmdNext ==
  \/ lammps_commands_string(cin.str, cin.tail)
  \/ lammps_commands_list(cin.str, cin.before, cin.tail)

CmdSpec == CmdInit /\ [][CmdNext]_vars

\* ------------------------------------------------------- index arithmetic
\* The int expressions of gather and scatter for systems too large to lay
\* out: count*natoms (buffer length, reduction length, loop bound) and
\* offset = count*(tag-1), offset++ (buffer offsets).

\* what a build may leave in an int after a signed overflow
UndefInt == {-MAXSMALLINT - 1, 0, MAXSMALLINT}

RECURSIVE MulWrap(_, _)
MulWrap(a, b) == IF a = 0 THEN 0 ELSE AddInt32(MulWrap(a - 1, b), b)

\* a * b in int, for a >= 1 and b >= 0
MulInt(a, b) ==
  LET ovf == b > MAXSMALLINT \div a
  IN [ovf |-> ovf,
      vals |-> IF ovf THEN {MulWrap(a, b)} \cup UndefInt ELSE {a * b}]

\* a + b in int, for a >= 0 and b >= 0
AddInt(a, b) ==
  LET ovf == b > MAXSMALLINT - a
  IN [ovf |-> ovf,
      vals |-> IF ovf THEN {AddInt32(a, b)} \cup UndefInt ELSE {a + b}]

\* system sizes around the limits of int
NatomsValues ==
  {Big(n) : n \in (0 .. 2) \cup
     UNION {{MAXSMALLINT \div c, MAXSMALLINT \div c + (IF c > 1 THEN 1 ELSE 0)} :
              c \in 1 .. MaxIdxCount}}
  \cup {TooBig}

\* tags looked at: the first and the last ones of a system of n atoms
TagsNear(n) ==
  IF ExceedsSmallInt(n) THEN 1 .. MaxIdxTag
  ELSE {t \in (1 .. MaxIdxTag) \cup
               {ToInt(n) - k : k \in 0 .. (MaxIdxTag - 1)} :
          1 <= t /\ t <= ToInt(n)}

\* the index expressions evaluated for the atom with tag t, tag[i] = t, at
\* its component c
GatherIndex(t, c) ==
  /\ cin.fn = "index"
  /\ ret = NoCall
  /\ IF tag_enable = 0 \/ ExceedsSmallInt(natoms)
     THEN /\ ret' = [fn |-> "index", val |-> 0, arg |-> 0]
          /\ cout' = << >>
     ELSE LET len == MulInt(fcount, ToInt(natoms))
              base == MulInt(fcount, t - 1)
          IN /\ ret' = [fn |-> "index", val |-> 1, arg |-> 0]
             /\ \E l \in len.vals, b \in base.vals :
                  LET off == IF b >= 0 THEN AddInt(b, c)
                             ELSE [ovf |-> FALSE, vals |-> {b + c}]
                  IN \E o \in off.vals :
                       cout' = [len |-> l, lenovf |-> len.ovf, off |-> o,
                                offovf |-> base.ovf \/ off.ovf]
  /\ UNCHANGED <<gathervars, last_error, heap, cin>>

\* the caller's count and the tag and component looked at belong to the
\* system: 1 <= t <= natoms, c < count
IdxInit ==
  /\ EmptyStore
  /\ HostIdle
  /\ last_error = NoError
  /\ ret = NoCall
  /\ heap = NoHeap
  /\ cout = << >>
  /\ natoms \in NatomsValues
  /\ fcount \in 1 .. MaxIdxCount
  /\ cin \in {[fn |-> "index", t |-> t, c |-> c] :
                t \in TagsNear(natoms), c \in 0 .. (fcount - 1)}

IdxNext == GatherIndex(cin.t, cin.c)

IdxSpec == IdxInit /\ [][IdxNext]_vars

\* ------------------------------------------------------ lammps_create_atoms
\* the id argument: NULL, or an array of n tags
NullIds == [null |-> TRUE, v |-> EmptyBuf]
Ids(v) == [null |-> FALSE, v |-> v]

IdArgs(n) == {NullIds} \cup {Ids(v) : v \in [0 .. (n - 1) -> Tags]}

\* Domain::ownatom(): the coordinates of each atom lie in the subdomain of
\* one rank; owner[i] is the rank in whose subdomain atom i lies
ownatom(owner, r, i) == owner[i] = r

\* the loop over the n atoms on rank r: tg is atom->tag of the rank
RECURSIVE CreateLoop(_, _, _, _, _, _)
CreateLoop(i, n, id, owner, r, tg) ==
  IF i >= n THEN tg
  ELSE IF ~ownatom(owner, r, i) THEN CreateLoop(i + 1, n, id, owner, r, tg)
  ELSE LET nloc == Cardinality(DOMAIN tg)
       IN CreateLoop(i + 1, n, id, owner, r,
            [k \in 0 .. nloc |->
               IF k < nloc THEN tg[k]
               ELSE IF id.null THEN i + 1 ELSE id.v[i]])

\* the collective call on all ranks; cin logs whether id was NULL
lammps_create_atoms(n, id, owner, box_exist) ==
  /\ op = "none"
  /\ Len(cin) < MaxCalls
  /\ ToInt(natoms) + n <= MaxAtoms + 1
  /\ IF box_exist = 0 \/ tag_enable = 0
     THEN /\ warnings' = [r \in Procs |->
                 IF r = 0 THEN <<"Library error in lammps_create_atoms">>
                 ELSE << >>]
          /\ UNCHANGED <<nlocal, tag, natoms, fld>>
     ELSE LET tg == [r \in Procs |-> CreateLoop(0, n, id, owner, r, tag[r])]
              nl == [r \in Procs |-> Cardinality(DOMAIN tg[r])]
              ncurrent == SumTo(nl, NProcs - 1)
          IN /\ tag' = tg
             /\ nlocal' = nl
             /\ natoms' = Big(ncurrent)
             /\ fld' = [r \in Procs |-> InitArr(nl, tg, fcount, r)]
             /\ warnings' = [r \in Procs |->
                   IF r = 0 /\ ncurrent # ToInt(natoms) + n
                   THEN <<"Library warning in lammps_create_atoms, invalid total atoms">>
                   ELSE << >>]
  /\ ret' = [fn |-> "create_atoms", val |-> n, arg |-> box_exist]
  /\ cin' = Append(cin, id.null)
  /\ UNCHANGED <<tag_enable, map_style, ftype, fcount, nghost, data, op,
                 opname, pc, copy, contrib, snap, sysB, dataB, last_error,
                 heap, cout>>

CreateInit ==
  /\ EmptySystem
  /\ Idle

CreateNext ==
  \E n \in 1 .. MaxAtoms, box_exist \in 0 .. 1 :
    \E id \in IdArgs(n), owner \in [0 .. (n - 1) -> Procs] :
       lammps_create_atoms(n, id, owner, box_exist)

CreateSpec == CreateInit /\ [][CreateNext]_vars

\* ------------------------------------------------------ lammps_extract_fix
\* heap.held counts the malloc'ed doubles the caller holds a pointer to,
\* heap.lost those no pointer refers to any more; cin is the fix.

FixKinds == [scalar_flag : 0 .. 1, vector_flag : 0 .. 1, array_flag : 0 .. 1,
             peratom_flag : 0 .. 1, local_flag : 0 .. 1]
FixIds == {"f", "nosuch"}
FixStyles == 0 .. 3
FixTypes == 0 .. 3

\* Modify::find_fix(id)
find_fix(id) == IF id = "f" THEN 0 ELSE -1

\* the pointer lammps_extract_fix returns (NULL, the malloc'ed double, or
\* a pointer into the fix) and whether it called malloc
ExtractFix(fix, id, style, type) ==
  IF find_fix(id) < 0 THEN [p |-> NULL, malloc |-> FALSE]
  ELSE IF style = 0
  THEN IF type = 0
       THEN [p |-> IF fix.scalar_flag = 0 THEN NULL ELSE "dptr", malloc |-> TRUE]
       ELSE IF type = 1
       THEN [p |-> IF fix.vector_flag = 0 THEN NULL ELSE "dptr", malloc |-> TRUE]
       ELSE IF type = 2
       THEN [p |-> IF fix.array_flag = 0 THEN NULL ELSE "dptr", malloc |-> TRUE]
       ELSE [p |-> NULL, malloc |-> TRUE]
  ELSE IF style = 1
  THEN [p |-> IF fix.peratom_flag = 0 \/ type \notin {1, 2} THEN NULL
              ELSE "fix", malloc |-> FALSE]
  ELSE IF style = 2
  THEN [p |-> IF fix.local_flag = 0 \/ type \notin {1, 2} THEN NULL
              ELSE "fix", malloc |-> FALSE]
  ELSE [p |-> NULL, malloc |-> FALSE]

lammps_extract_fix(id, style, type) ==
  LET out == ExtractFix(cin, id, style, type)
  IN /\ out.malloc => heap.held + heap.lost < MaxBlocks
     /\ ret' = [fn |-> "extract_fix", val |-> out.p, arg |-> style]
     /\ heap' = IF ~out.malloc THEN heap
                ELSE IF out.p = NULL THEN [heap EXCEPT !.lost = @ + 1]
                ELSE [heap EXCEPT !.held = @ + 1]
     /\ UNCHANGED <<gathervars, last_error, cin, cout>>

\* the caller frees a double it got from lammps_extract_fix
lammps_free ==
  /\ heap.held > 0
  /\ heap' = [heap EXCEPT !.held = @ - 1]
  /\ ret' = [fn |-> "free", val |-> NULL, arg |-> 0]
  /\ UNCHANGED <<gathervars, last_error, cin, cout>>

FixInit ==
  /\ EmptySystem
  /\ HostIdle
  /\ last_error = NoError
  /\ ret = NoCall
  /\ heap = NoHeap
  /\ cout = << >>
  /\ cin \in FixKinds

FixNext ==
  \/ \E id \in FixIds, style \in FixStyles, type \in FixTypes :
        lammps_extract_fix(id, style, type)
  \/ lammps_free

FixSpec == FixInit /\ [][FixNext]_vars

\* ===================================================================== claims
N == ToInt(natoms)
Comps == 0 .. (fcount - 1)

\* the owned slots <<rank, slot>> holding tag t
Owners(t) == {o \in Procs \X (0 .. MaxAtoms) : o[2] < nlocal[o[1]] /\ tag[o[1]][o[2]] = t}

\* the owned atom sets of the ranks are disjoint and together cover 1..N
DisjointCover ==
  /\ natoms.hi = 0
  /\ \A t \in 1 .. N : Cardinality(Owners(t)) = 1
  /\ \A r \in Procs : \A i \in 0 .. (nlocal[r] - 1) : tag[r][i] \in 1 .. N

\* the field of the atom with tag t, as stored by its owner
FieldOf(t) == LET o == CHOOSE o \in Owners(t) : TRUE IN fld[o[1]][o[2]]

Returned(r) == pc[r] \in {"done", "aborted"}
TotalWarnings == SumTo([r \in Procs |-> Len(warnings[r])], NProcs - 1)

\* the three rejection conditions tested by gather and scatter
TagsRejected ==
  \/ tag_enable = 0
  \/ tag_consecutive(nlocal, tag, natoms) = 0
  \/ ExceedsSmallInt(natoms)

\* C1: with tags enabled and consecutive, N within the 32-bit bound, a known
\* field name and disjoint, covering ownership, a completed gather leaves
\* component c of the atom with tag t at offset count*(t-1)+c of the
\* destination buffer of every rank, for both kinds and every count.
C1_GatherLayout ==
  (op = "gather" /\ ~TagsRejected /\ extract(opname) # NULL /\ DisjointCover)
  => \A r \in Procs : pc[r] = "done" =>
       \A t \in 1 .. N : \A c \in Comps :
          data[r][fcount * (t - 1) + c] = FieldOf(t)[c]

\* C1 holds of the code when the int kind with count > 1 is left out
C1_GatherLayoutOtherKinds ==
  (ftype = 1 \/ fcount = 1) => C1_GatherLayout

\* C2: gather followed at once by scatter of the gathered buffer leaves every
\* slot and component of every rank's storage as it was before the gather.
C2_RoundTrip ==
  (op = "scatter" /\ snap.valid /\ \A r \in Procs : Returned(r))
  => fld = snap.f

\* C3: after a scatter that passed its preconditions, on every rank and for
\* every tag t in 1..N with map(t) = m >= 0, slot m holds in component c the
\* value source[count*(t-1)+c]; the source buffer is not modified.
C3_ScatterValues ==
  /\ [](\A r \in Procs : (op = "scatter" /\ pc[r] = "done") =>
          \A t \in 1 .. N : map(r, t) >= 0 =>
             \A c \in Comps :
                fld[r][map(r, t)][c] = data[r][fcount * (t - 1) + c])
  /\ [][op = "scatter" => data' = data]_vars

C3_Witness ==
  /\ op = "scatter"
  /\ fcount > 1
  /\ \E r \in Procs : /\ pc[r] = "done"
                      /\ \E t \in 1 .. N : map(r, t) >= 0
                      /\ \E t \in 1 .. N : map(r, t) < 0
                      /\ fld[r] # InitArr(nlocal, tag, fcount, r)


\* C4: two systems holding the same N atoms with the same field values but
\* partitioned over the ranks differently, over a different number of ranks
\* and in different slot orders, gather identical destination buffers.
C4_PartitionInvariance ==
  (op = "gather" /\ dataB # EmptyBuf) =>
     \A r \in Procs : pc[r] = "done" =>
        \A q \in DOMAIN dataB : data[r] = dataB[q]

C4_Witness ==
  /\ op = "gather"
  /\ dataB # EmptyBuf
  /\ \A r \in Procs : pc[r] = "done"
  /\ N > 1
  /\ fcount > 1
  /\ sysB.np < NProcs
  /\ \E r \in Procs : nlocal[r] = 1
  /\ sysB.tg[0][0] # 1
  /\ \E t \in 1 .. N : FieldOf(t)[0] # FieldOf(1)[0]

\* C5: a gather called while tags are disabled, or tag_consecutive() fails,
\* or natoms exceeds MAXSMALLINT writes no element of any destination buffer,
\* never reaches the all-reduce, allocates no staging buffer, and prints
\* exactly one diagnostic over all ranks, on rank 0.
C5_GatherRejection ==
  /\ []((op = "gather" /\ TagsRejected) =>
          /\ \A r \in Procs :
               /\ pc[r] \in {"idle", "aborted"}
               /\ ~copy[r].alloc
               /\ ~contrib[r].alloc
               /\ r # 0 => warnings[r] = << >>
          /\ Len(warnings[0]) = (IF pc[0] = "aborted" THEN 1 ELSE 0)
          /\ (\A r \in Procs : Returned(r)) => TotalWarnings = 1)
  /\ [][(op = "gather" /\ TagsRejected) => data' = data]_vars

C5_Witness ==
  /\ op = "gather"
  /\ TagsRejected
  /\ \A r \in Procs : pc[r] = "aborted"
  /\ warnings[0] = <<"Library error in lammps_gather_atoms">>

\* C6: a scatter called while tags are disabled, or tag_consecutive() fails,
\* or natoms exceeds MAXSMALLINT, or there is no atom map modifies no element
\* of any rank's per-atom storage and prints exactly one diagnostic over all
\* ranks, on rank 0.
C6_ScatterRejection ==
  /\ []((op = "scatter" /\ (TagsRejected \/ map_style = 0)) =>
          /\ \A r \in Procs :
               /\ pc[r] \in {"idle", "aborted"}
               /\ r # 0 => warnings[r] = << >>
          /\ Len(warnings[0]) = (IF pc[0] = "aborted" THEN 1 ELSE 0)
          /\ (\A r \in Procs : Returned(r)) => TotalWarnings = 1)
  /\ [][(op = "scatter" /\ (TagsRejected \/ map_style = 0)) => fld' = fld]_vars

C6_Witness ==
  /\ op = "scatter"
  /\ map_style = 0
  /\ ~TagsRejected
  /\ \A r \in Procs : pc[r] = "aborted"
  /\ warnings[0] = <<"Library error in lammps_scatter_atoms">>
  /\ \E r \in Procs : \E t \in 1 .. N : map(r, t) >= 0

\* C7: when the field name does not resolve, gather and scatter return
\* without touching the staging buffer, the reduction or the storage, and
\* the diagnostic is printed exactly once over all ranks, by rank 0.
C7_UnknownNameOnce ==
  (op # "none" /\ extract(opname) = NULL) =>
     /\ \A r \in Procs : pc[r] \in {"idle", "aborted"} /\ ~copy[r].alloc
     /\ \A r \in Procs : r # 0 => warnings[r] = << >>
     /\ (\A r \in Procs : Returned(r)) => TotalWarnings = 1

\* C8: in one collective gather with the same arguments on every rank, all
\* ranks take the same pass/fail decision: none is in (or past) the
\* all-reduce while another has returned early.
C8_AllOrNone ==
  op = "gather" =>
    ~(\E r, q \in Procs : pc[r] \in {"reduce", "done"} /\ pc[q] = "aborted")

C8_Witness ==
  /\ op = "gather"
  /\ \E r, q \in Procs : /\ pc[r] = "reduce"
                         /\ pc[q] = "done"
                         /\ nlocal[r] = 0
                         /\ nlocal[q] > 0

\* C9: in a gather that passes its preconditions no rank returns from the
\* all-reduce before every rank has entered it, so while some rank has not
\* called gather no rank that entered the reduction has returned; once every
\* rank has called gather, every rank eventually returns.
C9_GatherBlocking ==
  /\ [][\A r \in Procs :
          (pc[r] = "reduce" /\ pc'[r] = "done") =>
             \A q \in Procs : pc[q] \in {"reduce", "done"}]_vars
  /\ []((op = "gather" /\ \E q \in Procs : pc[q] = "idle") =>
          \A r \in Procs : pc[r] # "done")
  /\ ((op = "gather" /\ \A r \in Procs : pc[r] # "idle")
        ~> (\A r \in Procs : Returned(r)))

C9_Witness ==
  /\ op = "gather"
  /\ \A r \in Procs : pc[r] = "done"
  /\ \A r \in Procs : data[r] # FillBuf(1, DataLen)

\* C10: a scatter step of rank r changes no slot of r that is not map(t) for
\* a tag t in 1..N, so a tag that is not found causes no write; it changes
\* nothing on other ranks, and leaves tags, atom counts, the map and the
\* caller's buffer as they were.
C10_ScatterFrame ==
  [][\A r \in Procs :
       (op = "scatter" /\ pc[r] = "idle" /\ pc'[r] # "idle") =>
          /\ \A s \in DOMAIN fld[r] :
               (\A t \in 1 .. N : map(r, t) # s) => fld'[r][s] = fld[r][s]
          /\ DOMAIN fld'[r] = DOMAIN fld[r]
          /\ \A q \in Procs \ {r} : fld'[q] = fld[q]
          /\ UNCHANGED <<sysvars, data>>]_vars

C10_Witness ==
  /\ op = "scatter"
  /\ \E r \in Procs :
       /\ pc[r] = "done"
       /\ \E s \in DOMAIN fld[r] : \A t \in 1 .. N : map(r, t) # s
       /\ \E t \in 1 .. N : map(r, t) < 0
       /\ \E t \in 1 .. N : map(r, t) >= 0 /\ fld[r][map(r, t)][0] >= 100


\* the ranks that own a copy of tag t
OwnerRanks(t) == {r \in Procs : \E i \in 0 .. (nlocal[r] - 1) : tag[r][i] = t}

\* component c of the atom with tag t as held by rank r (the last owned slot
\* with that tag)
RankValue(r, t, c) ==
  LET S == {i \in 0 .. (nlocal[r] - 1) : tag[r][i] = t}
  IN  fld[r][CHOOSE i \in S : \A k \in S : k <= i][c]

\* what rank r adds at tag t, component c: its value, or 0 when not an owner
RankTerm(r, t, c) == IF r \in OwnerRanks(t) THEN RankValue(r, t, c) ELSE 0

\* C11: after a gather, offset count*(t-1)+c of every destination buffer
\* holds the sum over the ranks owning t of their component c; a tag with
\* one owner carries that owner's value and a tag without owner carries 0.
C11_OverlapSum ==
  op = "gather" =>
    \A r \in Procs : pc[r] = "done" =>
      \A t \in 1 .. N : \A c \in Comps :
         data[r][fcount * (t - 1) + c] =
            SumTo([q \in Procs |-> RankTerm(q, t, c)], NProcs - 1)

\* C11 holds of the code when the int kind with count > 1 is left out
C11_OverlapSumOtherKinds ==
  (ftype = 1 \/ fcount = 1) => C11_OverlapSum


\* C12: a captured exception stores a message with type 1, or 2 only for an
\* abort in a universe of more than one process; lammps_has_error returns 1
\* exactly while a message is stored and never changes the slot;
\* lammps_get_last_error_message returns the stored type and clears the
\* slot, and returns 0 on an empty slot; nothing else clears the slot.
C12_ErrorSlot ==
  [][/\ ret'.fn = "capture" =>
          /\ last_error'.msg # NullStr
          /\ last_error'.type \in {ERROR_NORMAL, ERROR_ABORT}
          /\ last_error'.type = ERROR_ABORT <=> ret'.arg > 1
     /\ ret'.fn = "has_error" =>
          /\ ret'.val = (IF last_error.msg # NullStr THEN 1 ELSE 0)
          /\ last_error' = last_error
     /\ ret'.fn = "get_last_error_message" =>
          IF last_error.msg # NullStr
          THEN ret'.val = last_error.type /\ ret'.val \in {1, 2}
               /\ last_error' = NoError
          ELSE ret'.val = 0 /\ last_error' = NoError
     /\ (last_error.msg # NullStr /\ last_error'.msg = NullStr) =>
          ret'.fn = "get_last_error_message"]_vars

C12_Witness ==
  /\ ret = [fn |-> "get_last_error_message", val |-> ERROR_ABORT, arg |-> 1]
  /\ last_error = NoError
  /\ cout = [k \in 0 .. 0 |-> "?"]

\* the commands the text str stands for: its lines, a line whose last
\* non-blank character is '&' joined with the line after it
RECURSIVE SplitLines(_)
SplitLines(s) ==
  IF \E i \in 1 .. Len(s) : s[i] = NL
  THEN LET i == FindFrom(s, 0, {NL}) + 1
       IN <<SubSeq(s, 1, i - 1)>> \o SplitLines(SubSeq(s, i + 1, Len(s)))
  ELSE <<s>>

AmpAt(line) ==
  {k \in 1 .. Len(line) :
     line[k] = "&" /\ \A j \in (k + 1) .. Len(line) : line[j] = " "}

RECURSIVE Joined(_)
Joined(lines) ==
  IF lines = << >> THEN << >>
  ELSE IF AmpAt(lines[1]) # {} /\ Len(lines) > 1
  THEN LET k == CHOOSE k \in AmpAt(lines[1]) : TRUE
       IN Joined(<<[lines[1] EXCEPT ![k] = " "] \o <<" ">> \o lines[2]>>
                 \o SubSeq(lines, 3, Len(lines)))
  ELSE <<lines[1]>> \o Joined(Tail(lines))

NonEmpty(l) == l # << >>
Commands(str) == SelectSeq(Joined(SplitLines(str)), NonEmpty)

\* the final line of str ends with '&'
OpenContinuation(str) ==
  LET lines == Joined(SplitLines(str))
  IN AmpAt(lines[Len(lines)]) # {}

\* C13: lammps_commands_string passes every non-empty line of str to the
\* interpreter once and in order, continuation lines joined, and touches
\* only the private copy of str, also when the final line ends with '&'
C13_CommandString ==
  ret.fn = "commands_string" =>
    /\ cout.cmds = Commands(cin.str)
    /\ cout.lo >= 0
    /\ cout.hi < cout.size

\* what does hold: the same, for a text whose final line does not end
\* with '&'
C13_CommandStringClosed ==
  (ret.fn = "commands_string" /\ ~OpenContinuation(cin.str)) =>
    /\ cout.cmds = Commands(cin.str)
    /\ cout.lo >= 0
    /\ cout.hi < cout.size

NewlineTerminated(c) ==
  IF c # << >> /\ c[Len(c)] = NL THEN c ELSE Append(c, NL)

RECURSIVE ListText(_)
ListText(cmds) ==
  IF cmds = << >> THEN << >>
  ELSE NewlineTerminated(Head(cmds)) \o ListText(Tail(cmds))

\* the commands issued when the strings are processed one after another
RECURSIVE OneByOne(_)
OneByOne(cmds) ==
  IF cmds = << >> THEN << >>
  ELSE Commands(Head(cmds)) \o OneByOne(Tail(cmds))

\* C14: lammps_commands_list issues the commands of cmds[0..ncmd-1] as if
\* processed one after another, inserts a newline after a string exactly
\* when it does not end with one, stays within the allocated length and
\* never touches an index before the start of the buffer
C14_CommandList ==
  ret.fn = "commands_list" =>
    /\ cout.cmds = OneByOne(cin.str)
    /\ cout.text = ListText(cin.str)
    /\ cout.hi < cout.size
    /\ cout.lo >= 0

\* what does hold: the text fits the allocation, and a list without empty
\* strings is read from index 0 on and gets its newlines where missing
C14_CommandListFits ==
  ret.fn = "commands_list" =>
    /\ cout.hi < cout.size
    /\ (\A i \in 1 .. Len(cin.str) : cin.str[i] # << >>) =>
          cout.lo >= 0 /\ cout.text = ListText(cin.str)

\* the owned slice of a per-slot array of rank r
OwnedSlice(r, a) == [i \in 0 .. (nlocal[r] - 1) |-> a[i]]

\* the staging buffer of rank r depends on its owned slice only
GatherReadsOwned ==
  \A r \in Procs :
    (op = "gather" /\ contrib[r].alloc) =>
       contrib[r].v = FillCopy(ftype, fcount, N, OwnedSlice(r, tag[r]),
                               OwnedSlice(r, fld[r]), nlocal[r])

\* a scatter step of rank r leaves its ghost slots as they were
ScatterSkipsGhosts ==
  \A r \in Procs :
    (op = "scatter" /\ pc[r] = "idle" /\ pc'[r] # "idle") =>
       \A s \in DOMAIN fld[r] : s >= nlocal[r] => fld'[r][s] = fld[r][s]

\* C15: only the owned slice of each rank takes part: gather reads only
\* slots 0..nlocal-1, and scatter never writes a slot >= nlocal, also when
\* the atom map resolves a tag to a ghost slot
C15_GhostExclusion == []GatherReadsOwned /\ [][ScatterSkipsGhosts]_vars

\* what does hold: the gather half
C15_GatherOwnedOnly == GatherReadsOwned

\* offsets of the staging buffer that rank r writes
OwnOffsets(r) ==
  {fcount * (tag[r][i] - 1) + c : i \in 0 .. (nlocal[r] - 1), c \in Comps}

\* a staging buffer exists only between allocation and MPI_Allreduce, has
\* count*N elements, and holds 0 wherever the rank wrote no local value
StagingShape ==
  \A r \in Procs :
    /\ copy[r].alloc =>
          /\ op = "gather" /\ pc[r] = "reduce"
          /\ DOMAIN copy[r].v = 0 .. (fcount * N - 1)
          /\ \A k \in DOMAIN copy[r].v :
                k \notin OwnOffsets(r) => copy[r].v[k] = 0
    /\ pc[r] # "reduce" => ~copy[r].alloc

\* a staging buffer comes into being only when a gather call passes its
\* checks, which happens once per call
StagingOnce ==
  \A r \in Procs :
    (~copy[r].alloc /\ copy'[r].alloc) =>
       op = "gather" /\ pc[r] = "idle" /\ pc'[r] = "reduce"

\* C16: lammps_gather_atoms allocates its staging buffer at most once, of
\* length count*N and zeroed, and frees it before it returns; no staging
\* buffer outlives a call, rejected or not, and scatter allocates none
C16_StagingBuffer == []StagingShape /\ [][StagingOnce]_vars

C16_Witness ==
  /\ op = "gather"
  /\ \E r, q \in Procs :
       /\ pc[r] = "done" /\ ~copy[r].alloc
       /\ pc[q] = "reduce" /\ copy[q].alloc
       /\ \E k \in DOMAIN copy[q].v : copy[q].v[k] = 0
       /\ \E k \in DOMAIN copy[q].v : copy[q].v[k] # 0

\* C17: whenever N passes the range check, count*natoms and the offsets
\* count*(tag-1)+c are computed without overflow of a 32-bit signed int
C17_IndexInRange ==
  (ret.fn = "index" /\ ret.val = 1) => ~cout.lenovf /\ ~cout.offovf

\* what does hold: no overflow when N <= MAXSMALLINT / count
C17_IndexInRangeSmall ==
  (ret.fn = "index" /\ ret.val = 1 /\ ToInt(natoms) <= MAXSMALLINT \div fcount)
    => /\ ~cout.lenovf /\ ~cout.offovf
       /\ cout.len = fcount * ToInt(natoms)
       /\ cout.off = fcount * (cin.t - 1) + cin.c

\* the owned slots of the system
OwnedSlots == {o \in Procs \X (0 .. MaxAtoms) : o[2] < nlocal[o[1]]}

\* every atom has its own tag, and the tags are 1..natoms
TagsUnique ==
  /\ \A o, q \in OwnedSlots : tag[o[1]][o[2]] = tag[q[1]][q[2]] => o = q
  /\ OwnedTags(nlocal, tag) = 1 .. N
  /\ N > 0 => tag_consecutive(nlocal, tag, natoms) = 1

\* every call so far passed id = NULL
OnlyNullIds == \A k \in 1 .. Len(cin) : cin[k]

\* C18: after any sequence of lammps_create_atoms calls with id = NULL
\* every atom has a distinct tag and the tags are 1..natoms, also when
\* atoms existed before a call
C18_CreatedTagsUnique ==
  (ret.fn = "create_atoms" /\ OnlyNullIds) => TagsUnique

\* what does hold: the same after calls into a system that had no atoms
C18_FirstCreateUnique ==
  (ret.fn = "create_atoms" /\ OnlyNullIds /\ N = ret.val /\ ret.arg = 1)
     => TagsUnique

\* C19: a double allocated by lammps_extract_fix for global data is either
\* returned to the caller or released before the call returns, so no block
\* is ever left without a pointer to it and, once the caller has freed what
\* it was given, no allocation is live
C19_NoOrphanedBlock == heap.lost = 0

\* what does hold: a block is orphaned only by a style 0 call that returns
\* NULL, and a returned double is freed by lammps_free
C19_OrphanOnlyOnNull ==
  [][/\ heap'.lost > heap.lost =>
          ret'.fn = "extract_fix" /\ ret'.val = NULL /\ ret'.arg = 0
     /\ ret'.fn = "free" =>
          heap'.held = heap.held - 1 /\ heap'.lost = heap.lost]_vars

====
